---- MODULE Spec2Model ----
(***************************************************************************)
(* RingModel of boxing/models/ring_model.py: a list of at most two boxers  *)
(* with enter_ring, clear_ring, get_boxers, get_fighting_skill and fight.  *)
(*                                                                         *)
(* Numbers.  The code computes in floating point.  Here a skill is an       *)
(* integer number of hundredths (weights and name lengths are integers and *)
(* reaches have one decimal, so reach/10 has two), a probability is an     *)
(* integer number of 1/PScale, and a random draw is an integer number of   *)
(* hundredths in 0..99.                                                    *)
(***************************************************************************)
EXTENDS Integers, Sequences, FiniteSets, TLC

VARIABLES
    ring,     \* self.ring: the boxers in the ring, in order of entry
    result,   \* what the last call did: its name, argument, status and value
    calls,    \* the update_boxer_stats calls the last call made, in order
    draws,    \* the get_random samples the last call drew, in order
    events,   \* what the last fight did, in order, each with the occupancy
              \* of the ring at that moment
    history,  \* whether a fight has returned a winner, and how many calls of
              \* enter_ring succeeded since the last one that did (2: two or more)
    view,     \* the list the caller keeps from its last get_boxers: whether
              \* it holds one, whether that list is the ring's own list
              \* object, and what the list holds
    pending,  \* for each thread, whether it is inside enter_ring between the
              \* capacity check and the append, with its boxer and the
              \* occupancy its check saw
    serialized \* whether the host lets one call at a time into the ring

vars == <<ring, result, calls, draws, events, history, view, pending,
          serialized>>

None == "None"

(***************************************************************************)
(* Values offered to enter_ring.  cls is the Python class of the value;    *)
(* reach10 is the reach in tenths.                                         *)
(***************************************************************************)
Boxer(id, name, weight, reach10, age) ==
    [cls |-> "Boxer", id |-> id, name |-> name, weight |-> weight,
     reach10 |-> reach10, age |-> age]

asdict(b) == [b EXCEPT !.cls = "dict"]

sample_boxer1 == Boxer(1, "Boxer 1", 165, 720, 28)
sample_boxer2 == Boxer(2, "Boxer 2", 140, 695, 25)
sample_boxer3 == Boxer(3, "Boxer 3", 170, 745, 27)
\* Two more boxers, close to sample_boxer1 in skill: close_boxer is 0.5
\* above it (age under 25), equal_boxer has the same skill (age over 35).
close_boxer == Boxer(4, "Boxer 4", 165, 870, 24)
equal_boxer == Boxer(5, "Boxer 5", 165, 920, 36)

\* The boxer of test_get_fighting_skill_calculation, and a boxer of age 35;
\* both are offered to get_fighting_skill only.
test_boxer == Boxer(10, "Test Boxer", 210, 402, 30)
aged_boxer == Boxer(11, "Boxer 11", 180, 705, 35)

Boxers == {sample_boxer1, sample_boxer2, sample_boxer3, close_boxer, equal_boxer}
NonBoxers == {asdict(sample_boxer1)}
Entrants == Boxers \cup NonBoxers
Scored == Boxers \cup {test_boxer, aged_boxer}

\* The samples get_random can return, in hundredths.
Draws == {0, 10, 50, 62, 63, 90, 99}

(***************************************************************************)
(* Fixed-point arithmetic for the logistic function.                       *)
(***************************************************************************)
PScale == 10000
DrawUnit == PScale \div 100

abs(x) == IF x < 0 THEN 0 - x ELSE x

\* v * (f / 100000), k times, each product rounded to nearest; 0 stays 0.
RECURSIVE Scaled(_, _, _)
Scaled(v, f, k) ==
    IF k = 0 \/ v = 0 THEN v ELSE Scaled((v * f + 50000) \div 100000, f, k - 1)

\* math.e ** (-delta), delta in hundredths, as a number of 1/PScale:
\* e^(-0.01) = 0.99005, e^(-0.1) = 0.90484, e^(-1) = 0.36788, one factor
\* for each decimal digit of delta.
exp_neg(delta) ==
    Scaled(Scaled(Scaled(PScale, 99005, delta % 10),
                  90484, (delta \div 10) % 10),
           36788, delta \div 100)

\* 1 / (1 + math.e ** (-delta)), as a number of 1/PScale.
normalized_delta(delta) ==
    (PScale * PScale + ((PScale + exp_neg(delta)) \div 2))
        \div (PScale + exp_neg(delta))

(***************************************************************************)
(* get_fighting_skill                                                      *)
(***************************************************************************)
\* The brackets closed at 25 and 35.
age_modifier_closed(boxer) ==
    IF boxer.age <= 25 THEN -1 ELSE (IF boxer.age >= 35 THEN -2 ELSE 0)

age_modifier(boxer) ==
    IF boxer.age < 25 THEN -1 ELSE (IF boxer.age > 35 THEN -2 ELSE 0)

\* The skill in hundredths.
fighting_skill(boxer) ==
    (boxer.weight * Len(boxer.name)) * 100 + boxer.reach10
        + age_modifier(boxer) * 100

(***************************************************************************)
(* The conditions and effects of the methods.                              *)
(***************************************************************************)
\* A duck-typing check: anything with the fields of a Boxer passes.
is_boxer_duck(v) == "name" \in DOMAIN v

is_boxer(v) == v.cls = "Boxer"

\* An off-by-one capacity check.
ring_full_late(r) == Len(r) > 2

ring_full(r) == Len(r) >= 2

\* An off-by-one precondition.
too_few_late(r) == Len(r) < 1

too_few(r) == Len(r) < 2

\* A boxer already in the ring is not added again.
appended_unique(r, boxer) ==
    IF \E i \in 1..Len(r) : r[i] = boxer THEN r ELSE Append(r, boxer)

\* The boxer inserted at the front.
appended_front(r, boxer) == <<boxer>> \o r

appended(r, boxer) == Append(r, boxer)

\* Only the first boxer removed.
cleared_first(r) == IF r = <<>> THEN r ELSE Tail(r)

cleared(r) == IF r = <<>> THEN r ELSE <<>>

\* The list returned in reverse order.
boxers_view_reversed(r) == [i \in 1..Len(r) |-> r[Len(r) + 1 - i]]

\* return self.ring
boxers_view(r) == r

\* boxer.age, boxer.weight, boxer.name, boxer.reach exist on a Boxer; on a
\* dict the attribute access raises AttributeError.
has_attributes(v) == v.cls = "Boxer"

\* A copy of the list returned: return list(self.ring).
returned_copy(r) == [held |-> TRUE, own |-> FALSE, items |-> boxers_view(r)]

\* What the caller of get_boxers holds: self.ring itself.
returned_list(r) == [held |-> TRUE, own |-> TRUE, items |-> boxers_view(r)]

\* What the caller's list holds once self.ring holds r: the same, when the
\* list is self.ring (clear() and append() change the list in place and
\* self.ring is never assigned after __init__).
seen_through(v, r) ==
    IF v.held /\ v.own THEN [v EXCEPT !.items = r] ELSE v

\* The comparison turned around.
first_wins_above(random_number, nd) == random_number * DrawUnit > nd

\* The comparison made inclusive.
first_wins_inclusive(random_number, nd) == random_number * DrawUnit <= nd

first_wins(random_number, nd) == random_number * DrawUnit < nd

\* A failed update of the winner tried a second time.
stats_calls_retry(winner, loser, ok1, ok2) ==
    IF ok1
    THEN <<[id |-> winner.id, result |-> "win", ok |-> TRUE],
           [id |-> loser.id, result |-> "loss", ok |-> ok2]>>
    ELSE <<[id |-> winner.id, result |-> "win", ok |-> FALSE],
           [id |-> winner.id, result |-> "win", ok |-> TRUE],
           [id |-> loser.id, result |-> "loss", ok |-> ok2]>>

\* The loser's update made although the winner's failed.
stats_calls_continue(winner, loser, ok1, ok2) ==
    <<[id |-> winner.id, result |-> "win", ok |-> ok1],
      [id |-> loser.id, result |-> "loss", ok |-> ok2]>>

\* The loss recorded against the winner's id.
stats_calls_same_id(winner, loser, ok1, ok2) ==
    <<[id |-> winner.id, result |-> "win", ok |-> ok1]>>
        \o (IF ok1 THEN <<[id |-> winner.id, result |-> "loss", ok |-> ok2]>>
            ELSE <<>>)

\* The update_boxer_stats calls of one fight: the loser's is made only when
\* the winner's returned.
stats_calls(winner, loser, ok1, ok2) ==
    <<[id |-> winner.id, result |-> "win", ok |-> ok1]>>
        \o (IF ok1 THEN <<[id |-> loser.id, result |-> "loss", ok |-> ok2]>>
            ELSE <<>>)

\* The ring cleared right after the draw, before the stats updates.
fight_events_clear_first(r, made, updated) ==
    <<[ev |-> "get_random", occ |-> Len(r)],
      [ev |-> "clear_ring", occ |-> Len(r)]>>
        \o [i \in 1..Len(made) |-> [ev |-> made[i].result, occ |-> Len(cleared(r))]]
        \o (IF updated THEN <<[ev |-> "return", occ |-> Len(cleared(r))]>>
            ELSE <<[ev |-> "raise", occ |-> Len(cleared(r))]>>)

\* The statements of fight from the draw on, in the order of the code: the
\* draw, the stats updates made, and then either clear_ring and the return
\* or the exception of the update that failed.
fight_events(r, made, updated) ==
    <<[ev |-> "get_random", occ |-> Len(r)]>>
        \o [i \in 1..Len(made) |-> [ev |-> made[i].result, occ |-> Len(r)]]
        \o (IF updated
            THEN <<[ev |-> "clear_ring", occ |-> Len(r)],
                   [ev |-> "return", occ |-> Len(cleared(r))]>>
            ELSE <<[ev |-> "raise", occ |-> Len(r)]>>)

NumThreads == 2
Threads == 1..NumThreads

\* A thread that is not inside enter_ring.
Idle == [busy |-> FALSE, boxer |-> None, seen |-> 0]

Result(op, arg, status, value) ==
    [op |-> op, arg |-> arg, status |-> status, value |-> value]

Init ==
    /\ ring = <<>>
    /\ result = Result("__init__", None, "ok", None)
    /\ calls = <<>>
    /\ draws = <<>>
    /\ events = <<>>
    /\ history = [fought |-> FALSE, entered |-> 0]
    /\ view = [held |-> FALSE, own |-> FALSE, items |-> <<>>]
    /\ pending = [t \in Threads |-> Idle]
    /\ serialized = TRUE

enter_ring ==
    \E boxer \in Entrants :
        /\ calls' = <<>>
        /\ draws' = <<>>
        /\ IF ~is_boxer(boxer)
           THEN /\ result' = Result("enter_ring", boxer, "TypeError",
                        "Invalid type: Expected 'Boxer', got 'dict'")
                /\ ring' = ring
           ELSE IF ring_full(ring)
           THEN /\ result' = Result("enter_ring", boxer, "ValueError",
                        "Ring is full, cannot add more boxers.")
                /\ ring' = ring
           ELSE /\ result' = Result("enter_ring", boxer, "ok", None)
                /\ ring' = appended(ring, boxer)
        /\ events' = <<>>
        /\ history' = IF result'.status = "ok" /\ history.entered < 2
                      THEN [history EXCEPT !.entered = @ + 1]
                      ELSE history
        /\ view' = seen_through(view, ring')
        /\ UNCHANGED <<pending, serialized>>

clear_ring ==
    /\ ring' = cleared(ring)
    /\ result' = Result("clear_ring", None, "ok", None)
    /\ calls' = <<>>
    /\ draws' = <<>>
    /\ events' = <<>>
    /\ UNCHANGED history
    /\ view' = seen_through(view, ring')
    /\ UNCHANGED <<pending, serialized>>

get_boxers ==
    /\ result' = Result("get_boxers", None, "ok", boxers_view(ring))
    /\ UNCHANGED ring
    /\ calls' = <<>>
    /\ draws' = <<>>
    /\ events' = <<>>
    /\ UNCHANGED history
    /\ view' = returned_list(ring)
    /\ UNCHANGED <<pending, serialized>>

get_fighting_skill ==
    \E boxer \in Scored :
        /\ result' = Result("get_fighting_skill", boxer, "ok", fighting_skill(boxer))
        /\ UNCHANGED ring
        /\ calls' = <<>>
        /\ draws' = <<>>
        /\ events' = <<>>
        /\ UNCHANGED history
        /\ view' = seen_through(view, ring')
        /\ UNCHANGED <<pending, serialized>>

fight ==
    \E random_number \in Draws, ok1 \in BOOLEAN, ok2 \in BOOLEAN :
        /\ IF too_few(ring)
           THEN /\ result' = Result("fight", None, "ValueError",
                        "There must be two boxers to start a fight.")
                /\ UNCHANGED ring
                /\ calls' = <<>>
                /\ draws' = <<>>
                /\ events' = <<>>
                /\ UNCHANGED history
           ELSE IF Len(ring) # 2
           THEN \* boxer_1, boxer_2 = self.get_boxers() cannot unpack
                /\ result' = Result("fight", None, "ValueError", "unpack")
                /\ UNCHANGED ring
                /\ calls' = <<>>
                /\ draws' = <<>>
                /\ events' = <<>>
                /\ UNCHANGED history
           ELSE IF ~has_attributes(ring[1]) \/ ~has_attributes(ring[2])
           THEN \* get_fighting_skill reads boxer.age of a value without it
                /\ result' = Result("fight", None, "AttributeError",
                        "'dict' object has no attribute 'age'")
                /\ UNCHANGED ring
                /\ calls' = <<>>
                /\ draws' = <<>>
                /\ events' = <<>>
                /\ UNCHANGED history
           ELSE LET boxer_1 == ring[1]
                    boxer_2 == ring[2]
                    skill_1 == fighting_skill(boxer_1)
                    skill_2 == fighting_skill(boxer_2)
                    delta == abs(skill_1 - skill_2)
                    b1wins == first_wins(random_number, normalized_delta(delta))
                    winner == IF b1wins THEN boxer_1 ELSE boxer_2
                    loser == IF b1wins THEN boxer_2 ELSE boxer_1
                    made == stats_calls(winner, loser, ok1, ok2)
                    updated == \A i \in 1..Len(made) : made[i].ok
                IN  /\ draws' = <<random_number>>
                    /\ calls' = made
                    /\ events' = fight_events(ring, made, updated)
                    /\ IF updated
                       THEN /\ ring' = cleared(ring)
                            /\ result' = Result("fight", None, "ok", winner.name)
                            /\ history' = [fought |-> TRUE, entered |-> 0]
                       ELSE \* the exception of update_boxer_stats leaves fight
                            /\ UNCHANGED ring
                            /\ UNCHANGED history
                            /\ result' = Result("fight", None, "raised",
                                   "update_boxer_stats failed")
        /\ view' = seen_through(view, ring')
        /\ UNCHANGED <<pending, serialized>>

Next ==
    \/ enter_ring
    \/ clear_ring
    \/ get_boxers
    \/ get_fighting_skill
    \/ fight

Spec == Init /\ [][Next]_vars

(***************************************************************************)
(* The caller that keeps the list of get_boxers and appends to it.         *)
(***************************************************************************)
MaxLen == 3

\* The values the caller appends: a boxer and a value that is no Boxer.
Appended == {sample_boxer3} \cup NonBoxers

\* view.items.append(value), by the caller, on the list it holds.
append_returned ==
    \E value \in Appended :
        /\ view.held
        /\ Len(view.items) < MaxLen
        /\ view' = [view EXCEPT !.items = Append(@, value)]
        /\ ring' = IF view.own THEN Append(ring, value) ELSE ring
        /\ result' = Result("list.append", value, "ok", None)
        /\ calls' = <<>>
        /\ draws' = <<>>
        /\ events' = <<>>
        /\ UNCHANGED history
        /\ UNCHANGED <<pending, serialized>>

NextAlias ==
    \/ Next
    \/ append_returned

SpecAlias == Init /\ [][NextAlias]_vars

(***************************************************************************)
(* enter_ring called from several threads.  The interpreter can switch     *)
(* threads between the capacity check (line 105) and the append (line      *)
(* 109), so enter_ring is two steps; a host that serializes access lets a  *)
(* thread into enter_ring only when no other thread is inside it.          *)
(***************************************************************************)
ConcEntrants == {sample_boxer1, sample_boxer2, sample_boxer3} \cup NonBoxers

InitConc ==
    /\ ring = <<>>
    /\ result = Result("__init__", None, "ok", None)
    /\ calls = <<>>
    /\ draws = <<>>
    /\ events = <<>>
    /\ history = [fought |-> FALSE, entered |-> 0]
    /\ view = [held |-> FALSE, own |-> FALSE, items |-> <<>>]
    /\ pending = [t \in Threads |-> Idle]
    /\ serialized \in BOOLEAN

\* Lines 101-107: the type check and the capacity check of thread t.
enter_check(t) ==
    \E boxer \in ConcEntrants :
        /\ ~pending[t].busy
        /\ serialized => \A u \in Threads : ~pending[u].busy
        /\ IF ~is_boxer(boxer)
           THEN /\ result' = Result("enter_ring", boxer, "TypeError",
                        "Invalid type: Expected 'Boxer', got 'dict'")
                /\ UNCHANGED pending
           ELSE IF ring_full(ring)
           THEN /\ result' = Result("enter_ring", boxer, "ValueError",
                        "Ring is full, cannot add more boxers.")
                /\ UNCHANGED pending
           ELSE /\ UNCHANGED result
                /\ pending' = [pending EXCEPT
                        ![t] = [busy |-> TRUE, boxer |-> boxer, seen |-> Len(ring)]]
        /\ UNCHANGED <<ring, calls, draws, events, history, view, serialized>>

\* Line 109: the append of thread t, and the return.
enter_append(t) ==
    /\ pending[t].busy
    /\ ring' = appended(ring, pending[t].boxer)
    /\ result' = Result("enter_ring", pending[t].boxer, "ok", None)
    /\ pending' = [pending EXCEPT ![t] = Idle]
    /\ calls' = <<>>
    /\ draws' = <<>>
    /\ events' = <<>>
    /\ history' = IF history.entered < 2
                  THEN [history EXCEPT !.entered = @ + 1]
                  ELSE history
    /\ view' = seen_through(view, ring')
    /\ UNCHANGED serialized

NextConc ==
    \E t \in Threads :
        \/ enter_check(t)
        \/ enter_append(t)

SpecConc == InitConc /\ [][NextConc]_vars

(***************************************************************************)
(* Properties.  A step whose result' names a method is a call of that      *)
(* method: every action writes its own name into result.                   *)
(***************************************************************************)
AllUpdated(cs) == \A i \in 1..Len(cs) : cs[i].ok

\* C1: in every reachable state the ring holds 0, 1 or 2 boxers.
RingSizeInvariant == Len(ring) \in {0, 1, 2}

\* A call of enter_ring was rejected on a ring of two.
RingSizeWitness ==
    Len(ring) = 2 /\ result.op = "enter_ring" /\ result.status # "ok"

\* C2: a fight of two occupants whose stats updates all succeed returns the
\* name of one of them, and makes exactly two update_boxer_stats calls:
\* (id of the boxer returned, 'win') and then (id of the other, 'loss').
FightUpdatesStats ==
    [][(Len(ring) = 2 /\ result'.op = "fight" /\ AllUpdated(calls'))
        => /\ result'.status = "ok"
           /\ \E i \in {1, 2} :
                /\ result'.value = ring[i].name
                /\ calls' = <<[id |-> ring[i].id, result |-> "win", ok |-> TRUE],
                              [id |-> ring[3 - i].id, result |-> "loss", ok |-> TRUE]>>
      ]_vars

\* A fight returned "Boxer 3" after two stats updates.
FightUpdatesStatsWitness ==
    /\ result.op = "fight" /\ result.status = "ok"
    /\ result.value = "Boxer 3"
    /\ Len(calls) = 2 /\ calls[1].id = 3 /\ calls[2].id # 3

\* C3, as stated: a fight of two occupants leaves the ring empty, whatever
\* the draw and whether the stats updates succeed or fail.
FightAlwaysEmpties ==
    [][(Len(ring) = 2 /\ result'.op = "fight") => ring' = <<>>]_vars

\* C3, amended: a fight of two occupants leaves the ring empty, whatever the
\* draw, when both stats updates succeed; when a stats update fails the ring
\* keeps its two occupants in their order.
FightEmptiesWhenUpdated ==
    [][(Len(ring) = 2 /\ result'.op = "fight")
        => IF AllUpdated(calls') /\ Len(calls') = 2
           THEN ring' = <<>>
           ELSE ring' = ring
      ]_vars

\* A fight drew 0.99, updated both boxers and left the ring empty.
FightEmptiesWitness ==
    /\ result.op = "fight" /\ result.status = "ok"
    /\ draws = <<99>> /\ AllUpdated(calls) /\ Len(calls) = 2
    /\ ring = <<>>

\* C4: enter_ring with a Boxer on a ring of fewer than two succeeds, makes
\* the ring one longer, puts the boxer last and leaves the earlier boxers
\* where they were.
EnterAppends ==
    [][(Len(ring) < 2 /\ result'.op = "enter_ring" /\ result'.arg.cls = "Boxer")
        => /\ result'.status = "ok"
           /\ Len(ring') = Len(ring) + 1
           /\ ring'[Len(ring')] = result'.arg
           /\ \A i \in 1..Len(ring) : ring'[i] = ring[i]
      ]_vars

\* Boxer 2 entered after boxer 1.
EnterAppendsWitness ==
    /\ result.op = "enter_ring" /\ result.status = "ok"
    /\ result.arg = sample_boxer2
    /\ ring = <<sample_boxer1, sample_boxer2>>

EnterNonBoxerRejected ==
    [][(result'.op = "enter_ring" /\ result'.arg.cls # "Boxer")
        => /\ result'.status = "TypeError"
           /\ ring' = ring
      ]_vars

\* The dict of boxer 1 was refused by a ring of two.
EnterNonBoxerWitness ==
    /\ result.op = "enter_ring" /\ result.status = "TypeError"
    /\ result.arg = asdict(sample_boxer1)
    /\ Len(ring) = 2

\* C7: fight on a ring of fewer than two fails with ValueError "There must
\* be two boxers to start a fight.", leaves the ring as it was, draws no
\* random sample and makes no stats update.
FightNeedsTwo ==
    [][(Len(ring) < 2 /\ result'.op = "fight")
        => /\ result'.status = "ValueError"
           /\ result'.value = "There must be two boxers to start a fight."
           /\ ring' = ring
           /\ draws' = <<>>
           /\ calls' = <<>>
      ]_vars

\* A fight was refused on a ring of one.
FightNeedsTwoWitness ==
    /\ result.op = "fight" /\ result.status = "ValueError"
    /\ Len(ring) = 1

\* C8: with boxer 1 entered first, boxer 2 second and the draw 0.9, fight
\* returns "Boxer 2".
BoxerTwoWinsAtNinety ==
    [][(/\ ring = <<sample_boxer1, sample_boxer2>>
        /\ result'.op = "fight" /\ result'.status = "ok"
        /\ draws' = <<90>>)
        => result'.value = "Boxer 2"
      ]_vars

\* C9: with boxer 1 entered first, boxer 2 second and the draw 0.1, fight
\* (when it returns) returns "Boxer 1".
BoxerOneWinsAtTen ==
    [][(/\ ring = <<sample_boxer1, sample_boxer2>>
        /\ result'.op = "fight" /\ result'.status = "ok"
        /\ draws' = <<10>>)
        => result'.value = "Boxer 1"
      ]_vars

\* A fight drew 0.1 and boxer 1 won against boxer 2.
BoxerOneWinsWitness ==
    /\ result.op = "fight" /\ result.status = "ok"
    /\ draws = <<10>>
    /\ result.value = "Boxer 1"
    /\ Len(calls) = 2 /\ calls[1].id = 1 /\ calls[2].id = 2

\* C10: in a fight of b1 (entered first) and b2, with p the logistic value of
\* the absolute difference of their skills and r the draw, the winner (the
\* boxer whose 'win' update is made) is b1 exactly when r < p and b2 exactly
\* when r >= p.  Stated for two different boxers, so that the winner tells
\* the slot.
FightDecision ==
    [][(Len(ring) = 2 /\ result'.op = "fight" /\ ring[1].id # ring[2].id)
        => LET p == normalized_delta(
                        abs(fighting_skill(ring[1]) - fighting_skill(ring[2])))
               r == draws'[1]
           IN  /\ Len(draws') = 1
               /\ Len(calls') >= 1
               /\ calls'[1].result = "win"
               /\ (calls'[1].id = ring[1].id) <=> (r * DrawUnit < p)
               /\ (calls'[1].id = ring[2].id) <=> (r * DrawUnit >= p)
      ]_vars

\* A draw equal to p: boxers of equal skill, the draw 0.5, and the boxer
\* entered second won.
FightDecisionWitness ==
    /\ result.op = "fight" /\ result.status = "ok"
    /\ draws = <<50>>
    /\ Len(calls) = 2 /\ calls[1].id = 5 /\ calls[2].id = 1
    /\ normalized_delta(abs(fighting_skill(equal_boxer) - fighting_skill(sample_boxer1)))
         = 50 * DrawUnit


\* C11: get_fighting_skill(b) is weight * len(name) + reach / 10 + m, with
\* m = -1 for age < 25, m = -2 for age > 35 and m = 0 for the ages 25..35,
\* whatever the ring holds; the boxer (210, "Test Boxer", 40.2, 30) scores
\* 2104.02.  In hundredths.
SkillFormula ==
    (result.op = "get_fighting_skill")
        => LET b == result.arg
               m == CASE b.age < 25 -> -100
                      [] b.age > 35 -> -200
                      [] b.age >= 25 /\ b.age <= 35 -> 0
           IN  /\ result.status = "ok"
               /\ result.value = 100 * b.weight * Len(b.name) + b.reach10 + m
               /\ (b.age \in {25, 35}
                     => result.value = 100 * b.weight * Len(b.name) + b.reach10)
               /\ (b = test_boxer => result.value = 210402)

\* The test boxer was scored while two boxers were in the ring.
SkillFormulaWitness ==
    /\ result.op = "get_fighting_skill"
    /\ result.arg = test_boxer
    /\ result.value = 210402
    /\ Len(ring) = 2

\* C12: clear_ring never fails and leaves the ring empty, from 0, 1 or 2
\* occupants alike; a clear_ring after a clear_ring changes nothing.
ClearEmpties ==
    [][(result'.op = "clear_ring")
        => /\ result'.status = "ok"
           /\ ring' = <<>>
           /\ (ring = <<>> => ring' = ring)
           /\ (result.op = "clear_ring" => vars' = vars)
      ]_vars

\* The ring is empty after a clear_ring.
ClearEmptiesWitness ==
    /\ result.op = "clear_ring" /\ result.status = "ok"
    /\ ring = <<>>

\* C13: get_boxers returns the occupants in their order (the empty sequence
\* for an empty ring, never an error), and leaves the ring as it was, makes
\* no stats update and draws no random sample.
GetBoxersPure ==
    [][(result'.op = "get_boxers")
        => /\ result'.status = "ok"
           /\ result'.value = ring
           /\ ring' = ring
           /\ calls' = <<>>
           /\ draws' = <<>>
      ]_vars

\* get_boxers returned boxer 1 and boxer 2, which are still in the ring.
GetBoxersWitness ==
    /\ result.op = "get_boxers" /\ result.status = "ok"
    /\ result.value = <<sample_boxer1, sample_boxer2>>
    /\ ring = <<sample_boxer1, sample_boxer2>>


\* C14: within one fight the draw comes first, then the winner's 'win'
\* update, then the loser's 'loss' update, then the clearing of the ring,
\* then the return; the ring holds both boxers at each stats update.
FightOrder ==
    (result.op = "fight" /\ result.status # "ValueError")
        => /\ Len(events) >= 2
           /\ events[1].ev = "get_random"
           /\ \A i \in 1..Len(events) :
                events[i].ev \in {"win", "loss"}
                    => /\ events[i].occ = 2
                       /\ \A j \in 1..(i - 1) : events[j].ev # "clear_ring"
           /\ (result.status = "ok"
                 => /\ [i \in 1..Len(events) |-> events[i].ev]
                          = <<"get_random", "win", "loss", "clear_ring", "return">>
                    /\ events[4].occ = 2
                    /\ events[5].occ = 0)

\* A fight ran from the draw to the return.
FightOrderWitness ==
    /\ result.op = "fight" /\ result.status = "ok"
    /\ Len(events) = 5 /\ events[5].ev = "return"
    /\ ring = <<>>

\* C15: for every pair of occupants p >= 0.5, so every draw below 0.5 makes
\* the boxer entered first the winner, whichever of the two has the higher
\* skill (and so, with the order of entry reversed, the other boxer).
FirstFavoured ==
    [][(Len(ring) = 2 /\ result'.op = "fight")
        => LET p == normalized_delta(
                        abs(fighting_skill(ring[1]) - fighting_skill(ring[2])))
           IN  /\ 2 * p >= PScale
               /\ (draws'[1] < 50 => /\ calls'[1].id = ring[1].id
                                     /\ calls'[1].result = "win"
                                     /\ (result'.status = "ok"
                                           => result'.value = ring[1].name))
      ]_vars

\* Boxer 2, of lower skill than boxer 3, entered first, the draw was 0.1 and
\* boxer 2 won.
FirstFavouredWitness ==
    /\ result.op = "fight" /\ result.status = "ok"
    /\ draws = <<10>>
    /\ result.value = "Boxer 2"
    /\ Len(calls) = 2 /\ calls[1].id = 2 /\ calls[2].id = 3
    /\ fighting_skill(sample_boxer2) < fighting_skill(sample_boxer3)

\* C16: when a stats update fails in fight, the failure reaches the caller,
\* nothing is tried again (the failed update is the last call made), no
\* winner is returned and the ring still holds the same two boxers in the
\* same order.
UpdateFailurePropagates ==
    [][(Len(ring) = 2 /\ result'.op = "fight" /\ ~AllUpdated(calls'))
        => /\ result'.status = "raised"
           /\ result'.value = "update_boxer_stats failed"
           /\ ring' = ring
           /\ Len(calls') <= 2
           /\ \A i \in 1..Len(calls') : calls'[i].ok <=> i < Len(calls')
      ]_vars

\* The winner's update failed in a fight of boxer 1 and boxer 2, which are
\* still in the ring.
UpdateFailureWitness ==
    /\ result.op = "fight" /\ result.status = "raised"
    /\ Len(calls) = 1 /\ ~calls[1].ok
    /\ ring = <<sample_boxer1, sample_boxer2>>

\* C17: fight attempts each stats update at most once and compensates
\* nothing: when the winner's update fails the loser's is not attempted;
\* when the winner's succeeds and the loser's fails, the calls made are the
\* 'win' and the failed 'loss' and no other.
NoCompensation ==
    [][(Len(ring) = 2 /\ result'.op = "fight")
        => /\ Len(calls') \in {1, 2}
           /\ calls'[1].result = "win"
           /\ (~calls'[1].ok => Len(calls') = 1)
           /\ (calls'[1].ok
                 => /\ Len(calls') = 2
                    /\ calls'[2].result = "loss"
                    /\ \E i \in {1, 2} : /\ calls'[1].id = ring[i].id
                                         /\ calls'[2].id = ring[3 - i].id)
      ]_vars

\* A win was recorded and the loss that goes with it failed.
NoCompensationWitness ==
    /\ result.op = "fight" /\ result.status = "raised"
    /\ Len(calls) = 2
    /\ calls[1].result = "win" /\ calls[1].ok
    /\ calls[2].result = "loss" /\ ~calls[2].ok

\* C18: a fight made before two calls of enter_ring have succeeded since
\* the last fight that returned a winner (or since the ring was created) is
\* rejected with "There must be two boxers to start a fight."; a fight that
\* returns a winner makes one 'win' and one 'loss' update and starts the
\* count again.
NoRefight ==
    [][(result'.op = "fight")
        => /\ (history.entered < 2
                 => /\ result'.status = "ValueError"
                    /\ result'.value = "There must be two boxers to start a fight."
                    /\ calls' = <<>>)
           /\ (result'.status = "ok"
                 => /\ history.entered = 2
                    /\ history'.entered = 0
                    /\ Len(calls') = 2
                    /\ calls'[1].result = "win"
                    /\ calls'[2].result = "loss")
      ]_vars

\* A fight was rejected after a fight that returned a winner and one more
\* enter_ring.
NoRefightWitness ==
    /\ result.op = "fight" /\ result.status = "ValueError"
    /\ history.fought /\ history.entered = 1
    /\ Len(ring) = 1

\* C19: a value that is no Boxer, offered to a ring of two, is rejected with
\* the TypeError and not with the ValueError of the full ring.
TypeCheckedFirst ==
    [][(Len(ring) = 2 /\ result'.op = "enter_ring" /\ result'.arg.cls # "Boxer")
        => /\ result'.status = "TypeError"
           /\ result'.value = "Invalid type: Expected 'Boxer', got 'dict'"
           /\ result'.value # "Ring is full, cannot add more boxers."
      ]_vars

\* The dict of boxer 1 got the TypeError from the ring of boxer 1 and boxer 2.
TypeCheckedFirstWitness ==
    /\ result.op = "enter_ring"
    /\ result.value = "Invalid type: Expected 'Boxer', got 'dict'"
    /\ result.arg.cls = "dict"
    /\ ring = <<sample_boxer1, sample_boxer2>>

\* C20: enter_ring accepts a boxer that is already in the ring, so that the
\* boxer holds both slots; a fight on such a ring whose updates succeed
\* returns that boxer's name and records a 'win' and a 'loss' against the
\* one id.
SameBoxerTwice ==
    [][/\ (Len(ring) = 1 /\ result'.op = "enter_ring" /\ result'.arg = ring[1])
            => /\ result'.status = "ok"
               /\ ring' = <<ring[1], ring[1]>>
       /\ (Len(ring) = 2 /\ ring[1] = ring[2] /\ result'.op = "fight"
              /\ AllUpdated(calls'))
            => /\ result'.status = "ok"
               /\ result'.value = ring[1].name
               /\ calls' = <<[id |-> ring[1].id, result |-> "win", ok |-> TRUE],
                             [id |-> ring[1].id, result |-> "loss", ok |-> TRUE]>>
      ]_vars

\* Boxer 1 fought boxer 1: a win and a loss for id 1.
SameBoxerTwiceWitness ==
    /\ result.op = "fight" /\ result.status = "ok"
    /\ result.value = "Boxer 1"
    /\ Len(calls) = 2 /\ calls[1].id = 1 /\ calls[2].id = 1


\* C21: the list get_boxers returns is the ring's own list: what the caller
\* holds is at every moment what the ring holds, so it is empty after a
\* clear_ring or a fight that returned, and an append to it adds the value
\* to the ring whatever its type and however many boxers the ring holds.
ReturnedListIsRing ==
    [][/\ (view'.held => view'.items = ring')
       /\ ((view.held /\ (result'.op = "clear_ring"
                           \/ (result'.op = "fight" /\ result'.status = "ok")))
              => view'.items = <<>>)
       /\ (result'.op = "list.append"
              => /\ ring' = Append(ring, result'.arg)
                 /\ Len(ring') = Len(ring) + 1)
      ]_vars

\* The ring holds three values, the last put there by an append to the
\* list of get_boxers.
ReturnedListWitness ==
    /\ result.op = "list.append"
    /\ Len(ring) = 3
    /\ view.held /\ view.items = ring


\* C22: with enter_ring called from several threads, a thread is between
\* its capacity check and its append only when its check saw fewer than two
\* boxers, and the ring never holds more than one boxer for each thread
\* beyond the one a passed check can have seen; when access is serialized
\* the ring never holds more than two.  (The witness: unserialized, two
\* checks pass on a ring of one and the ring reaches three.)
ConcurrentEnter ==
    /\ \A t \in Threads : pending[t].busy => pending[t].seen < 2
    /\ Len(ring) + Cardinality({t \in Threads : pending[t].busy}) <= 1 + NumThreads
    /\ (serialized => Len(ring) <= 2)

\* Unserialized, the ring holds three boxers after an enter_ring returned.
ConcurrentEnterWitness ==
    /\ ~serialized
    /\ Len(ring) = 3
    /\ result.op = "enter_ring" /\ result.status = "ok"


====
